---- MODULE Spec2Model ----
(***************************************************************************)
(* clickhouse-backup: the hardlink-aware tar archiver (archive.go) and the *)
(* backup/restore workflows, table selection and retention (main.go).      *)
(*                                                                         *)
(* Every operation runs on one sequential control path, so each            *)
(* specification below is the state machine of one operation: its Init     *)
(* draws the operation's inputs and the environment (filesystem, catalog,  *)
(* remote listing) from bounded sets, its actions are the steps of the     *)
(* code, and the outcomes of the collaborators (database client, storage   *)
(* client, filesystem) are chosen nondeterministically.                    *)
(***************************************************************************)
EXTENDS Integers, Sequences, FiniteSets, TLC

VARIABLES
    pc,         \* position of the running operation
    ret,        \* its return value: "none" while running, "nil", "error", "panic"
    dryRun,     \* the dry-run flag handed to the operation
    calls,      \* collaborator calls made so far, in order
    fsOps,      \* local filesystem mutations made by the operation's own code, in order
    \* ---- archive.go
    dirs,       \* TarDirs: the roots handed in, in order
    fs,         \* root -> [kind, walk]: what os.Stat and filepath.Walk find there
    ri,         \* index into dirs of the root being archived
    wi,         \* index into the current root's walk
    seen,       \* tarDir: map[devino]string
    tw,         \* the tar stream: the entries written so far
    \* ---- main.go: freeze, restore
    args,       \* the command's positional arguments (glob patterns)
    increments, \* restore: the -i values
    shadow,     \* what ioutil.ReadDir(shadowPath) finds
    allTables,  \* what GetTables / GetBackupTables returned
    result,     \* the tables selected by parseArgsForFreeze / parseArgsForRestore
    ti,         \* index into result of the table being processed
    ai,         \* parseArgsForRestore: index of the pattern being matched
    \* ---- main.go: createTables
    meta,       \* the backup/metadata tree: [listing, contents]
    mi,         \* index into the listing of metadataPath
    fi,         \* index into the listing of the current database directory
    distributedTables,  \* the RestoreTables saved for later
    \* ---- main.go: upload, removeOldBackups
    strategy,   \* config.Backup.Strategy
    cfgDataPath,    \* whether config.ClickHouse.DataPath is set
    keep,       \* config.Backup.BackupsToKeep
    objects,    \* what s3.ListObjects returned
    tmpFile     \* the temporary archive file: "none", "exists", "removed"

commonVars == <<pc, ret, dryRun, calls, fsOps>>
archVars == <<dirs, fs, ri, wi, seen, tw>>
selVars == <<args, increments, shadow, allTables, result, ti, ai>>
ctVars == <<meta, mi, fi, distributedTables>>
upVars == <<strategy, cfgDataPath, keep, objects, tmpFile>>
vars == <<commonVars, archVars, selVars, ctVars, upVars>>

(***************************************************************************)
(* Bounds                                                                  *)
(***************************************************************************)
MaxFiles == 2       \* entries met by the walk of one root
MaxIdent == 2       \* distinct (Dev, Ino) pairs on the filesystem
MaxArgs == 2        \* positional arguments of a command
MaxTables == 2      \* tables in a catalog
MaxDefs == 2        \* files in one database directory of the metadata tree
MaxObjects == 3     \* objects in the remote listing
MaxTime == 3        \* distinct last-modified timestamps
MaxKeep == 2        \* largest backups_to_keep

(***************************************************************************)
(* Helpers                                                                 *)
(***************************************************************************)
Range(s) == {s[i] : i \in DOMAIN s}

SeqsUpTo(S, n) == UNION {[1..k -> S] : k \in 0..n}

EmptyMap == [x \in {} |-> x]

\* The variables of the operations that are not running keep these values.
ArchIdle ==
    /\ dirs = <<>>
    /\ fs = EmptyMap
    /\ ri = 0
    /\ wi = 0
    /\ seen = EmptyMap
    /\ tw = <<>>

SelIdle ==
    /\ args = <<>>
    /\ increments = <<>>
    /\ shadow = "none"
    /\ allTables = <<>>
    /\ result = <<>>
    /\ ti = 0
    /\ ai = 0

CtIdle ==
    /\ meta = <<>>
    /\ mi = 0
    /\ fi = 0
    /\ distributedTables = <<>>

UpIdle ==
    /\ strategy = "none"
    /\ cfgDataPath = FALSE
    /\ keep = 0
    /\ objects = <<>>
    /\ tmpFile = "none"

(***************************************************************************)
(* archive.go                                                              *)
(***************************************************************************)
\* The two roots uploadArchive hands to TarDirs.
Roots == {"shadow", "metadata"}

\* A devino value; one token per (Dev, Ino) pair.
Identities == 1..MaxIdent

\* What the walk meets below a root, in lexical order: directories and
\* non-directory files, each file carrying its identity.
WalkEntries == [isDir : {TRUE}, di : {0}] \cup [isDir : {FALSE}, di : Identities]

RootStates ==
    [kind : {"missing", "notdir"}, walk : {<<>>}]
        \cup [kind : {"dir"}, walk : SeqsUpTo(WalkEntries, MaxFiles)]

\* The size os.Lstat reports; hard links to one inode report the same size.
SizeOf(di) == di

\* Line 73: the root replaced by its base name; the i-th walked path of a
\* root keeps its position as its relative part.
ArchiveName(dir, i) == <<dir, i>>

\* tarArchive.FileInfoHeader(fi, "") followed by header.Name = filename.
FileInfoHeader(e, filename) ==
    [Typeflag |-> "reg", Name |-> filename, Linkname |-> <<>>,
     Size |-> SizeOf(e.di), body |-> "none"]

LinkHeader_KeepSize(header, orig) ==
    [header EXCEPT !.Typeflag = "link", !.Linkname = orig]

\* Lines 83-85.
LinkHeader(header, orig) ==
    [header EXCEPT !.Typeflag = "link", !.Linkname = orig, !.Size = 0]

\* Line 109: seen[di] = filename.
SeenPut(m, di, filename) ==
    [x \in DOMAIN m \cup {di} |-> IF x = di THEN filename ELSE m[x]]

\* What can happen while the callback handles one non-directory file.
FileOutcomes == {"ok", "walkErr", "infoErr", "headerErr", "openErr", "copyErr"}

ArchInit ==
    /\ pc = "tarDir"
    /\ ret = "none"
    /\ dryRun = FALSE
    /\ calls = <<>>
    /\ fsOps = <<>>
    /\ dirs \in {<<"shadow">>, <<"metadata">>,
                 <<"shadow", "metadata">>, <<"metadata", "shadow">>}
    /\ fs \in [Roots -> RootStates]
    /\ ri = 1
    /\ wi = 1
    /\ seen = EmptyMap
    /\ tw = <<>>
    /\ SelIdle
    /\ CtIdle
    /\ UpIdle

\* tarDir, lines 48-56: stat the root, then start the walk with a fresh map.
tarDirStat ==
    /\ pc = "tarDir"
    /\ ri <= Len(dirs)
    /\ LET st == fs[dirs[ri]]
       IN  CASE st.kind = "missing" ->
                  /\ ret' = "error"
                  /\ pc' = "done"
                  /\ UNCHANGED <<seen, wi>>
             [] st.kind = "notdir" ->
                  \* line 53 calls err.Error() with err == nil
                  /\ ret' = "panic"
                  /\ pc' = "done"
                  /\ UNCHANGED <<seen, wi>>
             [] OTHER ->
                  /\ seen' = EmptyMap
                  /\ wi' = 1
                  /\ pc' = "walk"
                  /\ UNCHANGED ret
    /\ UNCHANGED <<dryRun, calls, fsOps, dirs, fs, ri, tw, selVars, ctVars, upVars>>

\* The walk callback, lines 58-112, on the wi-th entry of the current root.
walkFn ==
    /\ pc = "walk"
    /\ wi <= Len(fs[dirs[ri]].walk)
    /\ LET dir == dirs[ri]
           e == fs[dir].walk[wi]
           filename == ArchiveName(dir, wi)
           header == FileInfoHeader(e, filename)
           fail == /\ ret' = "error"
                   /\ pc' = "done"
                   /\ UNCHANGED <<wi, seen>>
           next == /\ wi' = wi + 1
                   /\ UNCHANGED <<pc, ret>>
       IN  \E o \in FileOutcomes :
             CASE o = "walkErr" -> fail /\ UNCHANGED tw
               [] e.isDir -> o = "ok" /\ next /\ UNCHANGED <<tw, seen>>
               [] o = "infoErr" -> fail /\ UNCHANGED tw
               [] e.di \in DOMAIN seen ->
                    /\ o \in {"ok", "headerErr"}
                    /\ IF o = "headerErr"
                       THEN fail /\ UNCHANGED tw
                       ELSE /\ tw' = Append(tw, LinkHeader(header, seen[e.di]))
                            /\ next
                            /\ UNCHANGED seen
               [] o = "headerErr" -> fail /\ UNCHANGED tw
               [] o = "openErr" ->
                    /\ tw' = Append(tw, header)
                    /\ fail
               [] OTHER ->
                    \* io.Copy's result is dropped: a failed copy leaves a short body
                    /\ tw' = Append(tw, [header EXCEPT !.body =
                                           IF o = "copyErr" THEN "partial" ELSE "full"])
                    /\ seen' = SeenPut(seen, e.di, filename)
                    /\ next
    /\ UNCHANGED <<dryRun, calls, fsOps, dirs, fs, ri, selVars, ctVars, upVars>>

\* filepath.Walk ran out of entries: tarDir returns nil and TarDirs moves on.
walkDone ==
    /\ pc = "walk"
    /\ wi > Len(fs[dirs[ri]].walk)
    /\ ri' = ri + 1
    /\ pc' = "tarDir"
    /\ UNCHANGED <<ret, dryRun, calls, fsOps, dirs, fs, wi, seen, tw, selVars, ctVars, upVars>>

\* TarDirs, lines 18-23: every root done.
TarDirsReturn ==
    /\ pc = "tarDir"
    /\ ri > Len(dirs)
    /\ ret' = "nil"
    /\ pc' = "done"
    /\ UNCHANGED <<dryRun, calls, fsOps, dirs, fs, ri, wi, seen, tw, selVars, ctVars, upVars>>

ArchNext == tarDirStat \/ walkFn \/ walkDone \/ TarDirsReturn

SpecArchive == ArchInit /\ [][ArchNext]_vars

(***************************************************************************)
(* main.go: table selection                                                *)
(***************************************************************************)
\* Database and table names are one character long; a string is the
\* sequence of its characters.
Databases == {"a", "b"}
TableNames == {"t", "u"}

\* type Table
Tables == [Database : Databases, Name : TableNames]

\* fmt.Sprintf("%s.%s", t.Database, t.Name)
TableName(t) == <<t.Database, ".", t.Name>>

\* Glob patterns a command line can carry: "*", "a.*", "a.t" and "?.u".
Patterns ==
    { <<"*">>, <<"a", ".", "*">>, <<"a", ".", "t">>, <<"?", ".", "u">> }

\* filepath.Match for patterns of literals, '?' and '*': '*' matches any
\* run of non-separator characters, '?' one non-separator character.
RECURSIVE Match(_, _)
Match(pattern, name) ==
    IF pattern = <<>> THEN name = <<>>
    ELSE IF Head(pattern) = "*"
         THEN \E k \in 0..Len(name) :
                 /\ \A i \in 1..k : name[i] # "/"
                 /\ Match(Tail(pattern), SubSeq(name, k + 1, Len(name)))
         ELSE /\ name # <<>>
              /\ \/ Head(pattern) = "?" /\ Head(name) # "/"
                 \/ Head(pattern) = Head(name)
              /\ Match(Tail(pattern), Tail(name))

\* Lines 153-157: the tables of the catalog that match arg, in catalog order.
RECURSIVE MatchingTables(_, _)
MatchingTables(tables, arg) ==
    IF tables = <<>> THEN <<>>
    ELSE (IF Match(arg, TableName(Head(tables))) THEN <<Head(tables)>> ELSE <<>>)
             \o MatchingTables(Tail(tables), arg)

RECURSIVE FreezeLoop_Dedup(_, _)
FreezeLoop_Dedup(tables, as) ==
    IF tables = <<>> THEN <<>>
    ELSE (IF \E k \in DOMAIN as : Match(as[k], TableName(Head(tables)))
          THEN <<Head(tables)>> ELSE <<>>)
             \o FreezeLoop_Dedup(Tail(tables), as)

\* Lines 152-158: for each arg, in order, every catalog table it matches.
RECURSIVE FreezeLoop(_, _)
FreezeLoop(tables, as) ==
    IF as = <<>> THEN <<>>
    ELSE MatchingTables(tables, Head(as)) \o FreezeLoop(tables, Tail(as))

\* Lines 147-160.
parseArgsForFreeze(tables, as) ==
    IF Len(as) = 0 THEN tables ELSE FreezeLoop(tables, as)

\* The catalogs GetTables can return: lists of distinct tables.
Catalogs ==
    {c \in SeqsUpTo(Tables, MaxTables) : \A i, j \in DOMAIN c : i # j => c[i] # c[j]}

(***************************************************************************)
(* main.go: freeze                                                         *)
(***************************************************************************)
ShadowStates == {"notExist", "readErr", "empty", "nonEmpty"}

Call(fn, arg, ok) == [fn |-> fn, arg |-> arg, ok |-> ok]

CallsOf(fn) == {i \in DOMAIN calls : calls[i].fn = fn}

ShadowBlocks_IgnoreFiles(s) == s = "readErr"

\* Lines 315-322: the listing failed for a reason other than non-existence,
\* or it returned entries.
ShadowBlocks(s) == s = "readErr" \/ s = "nonEmpty"

FreezeInit ==
    /\ pc = "Connect"
    /\ ret = "none"
    /\ dryRun \in BOOLEAN
    /\ calls = <<>>
    /\ fsOps = <<>>
    /\ ArchIdle
    /\ CtIdle
    /\ UpIdle
    /\ args \in SeqsUpTo(Patterns, MaxArgs)
    /\ increments = <<>>
    /\ shadow \in ShadowStates
    /\ allTables = <<>>
    /\ result = <<>>
    /\ ti = 0
    /\ ai = 0

\* Lines 303-305.
freezeConnect ==
    /\ pc = "Connect"
    /\ \E ok \in BOOLEAN :
         /\ calls' = Append(calls, Call("Connect", <<>>, ok))
         /\ IF ok THEN pc' = "GetDataPath" /\ UNCHANGED ret
                  ELSE pc' = "done" /\ ret' = "error"
    /\ UNCHANGED <<dryRun, fsOps, archVars, selVars, ctVars, upVars>>

\* Lines 308-311: an error and an empty path both end the run.
freezeGetDataPath ==
    /\ pc = "GetDataPath"
    /\ \E o \in {"path", "empty", "err"} :
         /\ calls' = Append(calls, Call("GetDataPath", <<o>>, o = "path"))
         /\ IF o = "path" THEN pc' = "ReadShadow" /\ UNCHANGED ret
                          ELSE pc' = "done" /\ ret' = "error"
    /\ UNCHANGED <<dryRun, fsOps, archVars, selVars, ctVars, upVars>>

\* Lines 314-322.
freezeReadShadow ==
    /\ pc = "ReadShadow"
    /\ IF ShadowBlocks(shadow)
       THEN pc' = "done" /\ ret' = "error"
       ELSE pc' = "GetTables" /\ UNCHANGED ret
    /\ UNCHANGED <<dryRun, calls, fsOps, archVars, selVars, ctVars, upVars>>

\* Lines 324-335: the catalog, the selection and the empty-selection return.
freezeGetTables ==
    /\ pc = "GetTables"
    /\ \/ /\ calls' = Append(calls, Call("GetTables", <<>>, FALSE))
          /\ pc' = "done"
          /\ ret' = "error"
          /\ UNCHANGED <<allTables, result, ti>>
       \/ \E c \in Catalogs :
            /\ calls' = Append(calls, Call("GetTables", <<>>, TRUE))
            /\ allTables' = c
            /\ result' = parseArgsForFreeze(c, args)
            /\ ti' = 1
            /\ IF Len(result') = 0
               THEN pc' = "done" /\ ret' = "nil"
               ELSE pc' = "FreezeTable" /\ UNCHANGED ret
    /\ UNCHANGED <<dryRun, fsOps, archVars, args, increments, shadow, ai, ctVars, upVars>>

freezeTable_LogOnly ==
    /\ pc = "FreezeTable"
    /\ ti <= Len(result)
    /\ \E ok \in BOOLEAN :
         calls' = Append(calls, Call("FreezeTable", result[ti], ok))
    /\ ti' = ti + 1
    /\ UNCHANGED <<pc, ret, dryRun, fsOps, archVars, args, increments, shadow,
                   allTables, result, ai, ctVars, upVars>>

\* Lines 336-340: one iteration of the loop.
freezeTable ==
    /\ pc = "FreezeTable"
    /\ ti <= Len(result)
    /\ \E ok \in BOOLEAN :
         /\ calls' = Append(calls, Call("FreezeTable", result[ti], ok))
         /\ IF ok THEN ti' = ti + 1 /\ UNCHANGED <<pc, ret>>
                  ELSE pc' = "done" /\ ret' = "error" /\ UNCHANGED ti
    /\ UNCHANGED <<dryRun, fsOps, archVars, args, increments, shadow, allTables, result, ai, ctVars, upVars>>

\* Line 344.
freezeReturn ==
    /\ pc = "FreezeTable"
    /\ ti > Len(result)
    /\ pc' = "done"
    /\ ret' = "nil"
    /\ UNCHANGED <<dryRun, calls, fsOps, archVars, selVars, ctVars, upVars>>

FreezeNext ==
    \/ freezeConnect \/ freezeGetDataPath \/ freezeReadShadow
    \/ freezeGetTables \/ freezeTable \/ freezeReturn

SpecFreeze == FreezeInit /\ [][FreezeNext]_vars

(***************************************************************************)
(* main.go: restore                                                        *)
(***************************************************************************)
Increments == {1, 2}

\* type BackupTable; the partition paths play no part in the selection.  The
\* backups are the freezes 1 and 2 of the tables a.u and b.u.
BackupTables == [Database : Databases, Name : {"u"}, Increment : Increments]

\* The -i values a command line can carry.
IncrementLists == {<<>>, <<2>>, <<1, 2>>}

\* The values of the map GetBackupTables returns.
BackupCatalogs == {c \in SUBSET BackupTables : Cardinality(c) <= MaxTables}

\* The orders in which a range over the map can visit its values.
Orders(c) ==
    {o \in [1..Cardinality(c) -> c] : \A i, j \in DOMAIN o : i # j => o[i] # o[j]}

\* Lines 163-165.
RestoreArgs(as) == IF Len(as) = 0 THEN << <<"*">> >> ELSE as

IncrementSelected_Ignored(t, incs) == TRUE

\* Lines 171-180.
IncrementSelected(t, incs) ==
    \/ Len(incs) = 0
    \/ \E k \in DOMAIN incs : incs[k] = t.Increment

\* Lines 168-182: one pass over the map, visited in the given order.
RECURSIVE RestoreMatches(_, _, _)
RestoreMatches(order, arg, incs) ==
    IF order = <<>> THEN <<>>
    ELSE (IF Match(arg, TableName(Head(order))) /\ IncrementSelected(Head(order), incs)
          THEN <<Head(order)>> ELSE <<>>)
             \o RestoreMatches(Tail(order), arg, incs)

AfterStep_LogOnly(ok, nextPc) == [pc |-> nextPc, ret |-> "none"]

\* Lines 369-374: a failed CopyData or AttachPatritions ends the run.
AfterStep(ok, nextPc) ==
    IF ok THEN [pc |-> nextPc, ret |-> "none"] ELSE [pc |-> "done", ret |-> "error"]

RestoreInit ==
    /\ pc = "Connect"
    /\ ret = "none"
    /\ dryRun \in BOOLEAN
    /\ calls = <<>>
    /\ fsOps = <<>>
    /\ ArchIdle
    /\ CtIdle
    /\ UpIdle
    /\ args \in SeqsUpTo(Patterns, MaxArgs)
    /\ increments \in IncrementLists
    /\ shadow = "none"
    /\ allTables = {}
    /\ result = <<>>
    /\ ti = 0
    /\ ai = 0

\* Lines 352-354.
restoreConnect ==
    /\ pc = "Connect"
    /\ \E ok \in BOOLEAN :
         /\ calls' = Append(calls, Call("Connect", <<>>, ok))
         /\ IF ok THEN pc' = "GetBackupTables" /\ UNCHANGED ret
                  ELSE pc' = "done" /\ ret' = "error"
    /\ UNCHANGED <<dryRun, fsOps, archVars, selVars, ctVars, upVars>>

\* Lines 356-360 and 166: the catalog, then parseArgsForRestore starts.
restoreGetBackupTables ==
    /\ pc = "GetBackupTables"
    /\ \/ /\ calls' = Append(calls, Call("GetBackupTables", <<>>, FALSE))
          /\ pc' = "done"
          /\ ret' = "error"
          /\ UNCHANGED <<allTables, ai>>
       \/ \E c \in BackupCatalogs :
            /\ calls' = Append(calls, Call("GetBackupTables", <<>>, TRUE))
            /\ allTables' = c
            /\ ai' = 1
            /\ pc' = "parseArgs"
            /\ UNCHANGED ret
    /\ UNCHANGED <<dryRun, fsOps, archVars, args, increments, shadow, result, ti, ctVars, upVars>>

\* Lines 167-183: one iteration of the outer loop; every range over the map
\* picks its own order.
restoreSelectArg ==
    /\ pc = "parseArgs"
    /\ ai <= Len(RestoreArgs(args))
    /\ \E o \in Orders(allTables) :
         result' = result \o RestoreMatches(o, RestoreArgs(args)[ai], increments)
    /\ ai' = ai + 1
    /\ UNCHANGED <<commonVars, archVars, args, increments, shadow, allTables, ti, ctVars, upVars>>

\* Lines 184 and 361-367.
restoreSelected ==
    /\ pc = "parseArgs"
    /\ ai > Len(RestoreArgs(args))
    /\ IF Len(result) = 0
       THEN pc' = "done" /\ ret' = "nil"
       ELSE pc' = "CopyData" /\ UNCHANGED ret
    /\ ti' = 1
    /\ UNCHANGED <<dryRun, calls, fsOps, archVars, args, increments, shadow,
                   allTables, result, ai, ctVars, upVars>>

\* Lines 369-371.
restoreCopyData ==
    /\ pc = "CopyData"
    /\ ti <= Len(result)
    /\ \E ok \in BOOLEAN :
         /\ calls' = Append(calls, Call("CopyData", result[ti], ok))
         /\ pc' = AfterStep(ok, "AttachPartitions").pc
         /\ ret' = AfterStep(ok, "AttachPartitions").ret
    /\ UNCHANGED <<dryRun, fsOps, archVars, selVars, ctVars, upVars>>

\* Lines 372-375.
restoreAttachPartitions ==
    /\ pc = "AttachPartitions"
    /\ \E ok \in BOOLEAN :
         /\ calls' = Append(calls, Call("AttachPartitions", result[ti], ok))
         /\ pc' = AfterStep(ok, "CopyData").pc
         /\ ret' = AfterStep(ok, "CopyData").ret
    /\ ti' = ti + 1
    /\ UNCHANGED <<dryRun, fsOps, archVars, args, increments, shadow, allTables,
                   result, ai, ctVars, upVars>>

\* Line 376.
restoreReturn ==
    /\ pc = "CopyData"
    /\ ti > Len(result)
    /\ pc' = "done"
    /\ ret' = "nil"
    /\ UNCHANGED <<dryRun, calls, fsOps, archVars, selVars, ctVars, upVars>>

RestoreNext ==
    \/ restoreConnect \/ restoreGetBackupTables \/ restoreSelectArg
    \/ restoreSelected \/ restoreCopyData \/ restoreAttachPartitions
    \/ restoreReturn

SpecRestore == RestoreInit /\ [][RestoreNext]_vars

(***************************************************************************)
(* main.go: createTables                                                   *)
(***************************************************************************)
\* Entries of backup/metadata: the database directories a, b and system,
\* and a plain file.
TopNames == {"a", "b", "system", "README"}

IsDirName(n) == n # "README"

\* ioutil.ReadDir(metadataPath): up to two entries, in any order.
TopListings ==
    {<<>>} \cup {<<x>> : x \in TopNames}
           \cup {<<p[1], p[2]>> : p \in {q \in TopNames \X TopNames : q[1] # q[2]}}

\* A file of a database directory: whether its name ends in "sql", and the
\* statement it holds (the table it defines is told by its position).
TableFiles(i) ==
    [sql : BOOLEAN, dat : [stmt : {"ATTACH"}, table : {i}, engine : {"MergeTree"}]]
        \cup [sql : {TRUE}, dat : [stmt : {"ATTACH"}, table : {i}, engine : {"Distributed"}]]

\* ioutil.ReadDir(databaseDir)
DirListings ==
    UNION {{l \in [1..k -> UNION {TableFiles(i) : i \in 1..k}] :
              \A i \in 1..k : l[i].dat.table = i} : k \in 0..MaxDefs}

MetaTrees ==
    UNION {[listing : {l}, contents : [{n \in Range(l) : IsDirName(n)} -> DirListings]]
              : l \in TopListings}

\* Line 265: strings.Replace(string(dat), "ATTACH", "CREATE", 1)
CreateQuery(dat) == [dat EXCEPT !.stmt = IF @ = "ATTACH" THEN "CREATE" ELSE @]

IsDistributed_Never(query) == FALSE

\* Line 267: strings.Contains(tableCreateQuery, "ENGINE = Distributed")
IsDistributed(query) == query.engine = "Distributed"

\* type RestoreTable
RestoreTable(db, query) == [Database |-> db, Query |-> query]

CreateTableAborts_FailFast(ok) == ~ok

\* Lines 279-282 and 290-292: a failed CreateTable is logged, nothing more.
CreateTableAborts(ok) == FALSE

CreateTablesInit ==
    /\ pc = "Connect"
    /\ ret = "none"
    /\ dryRun \in BOOLEAN
    /\ calls = <<>>
    /\ fsOps = <<>>
    /\ ArchIdle
    /\ SelIdle
    /\ UpIdle
    /\ meta \in MetaTrees
    /\ mi = 0
    /\ fi = 0
    /\ distributedTables = <<>>

\* Lines 220-222.
ctConnect ==
    /\ pc = "Connect"
    /\ \E ok \in BOOLEAN :
         /\ calls' = Append(calls, Call("Connect", <<>>, ok))
         /\ IF ok THEN pc' = "GetDataPath" /\ UNCHANGED ret
                  ELSE pc' = "done" /\ ret' = "error"
    /\ UNCHANGED <<dryRun, fsOps, archVars, selVars, ctVars, upVars>>

\* Lines 225-228.
ctGetDataPath ==
    /\ pc = "GetDataPath"
    /\ \E o \in {"path", "empty", "err"} :
         /\ calls' = Append(calls, Call("GetDataPath", <<o>>, o = "path"))
         /\ IF o = "path" THEN pc' = "ReadMetadata" /\ UNCHANGED ret
                          ELSE pc' = "done" /\ ret' = "error"
    /\ UNCHANGED <<dryRun, fsOps, archVars, selVars, ctVars, upVars>>

\* Lines 236-241.
ctReadMetadata ==
    /\ pc = "ReadMetadata"
    /\ \E ok \in BOOLEAN :
         /\ calls' = Append(calls, Call("ReadDir", <<"metadata">>, ok))
         /\ IF ok THEN pc' = "files" /\ UNCHANGED ret
                  ELSE pc' = "done" /\ ret' = "error"
    /\ mi' = 1
    /\ UNCHANGED <<dryRun, fsOps, archVars, selVars, meta, fi, distributedTables, upVars>>

\* Lines 242-256: the next entry of metadataPath.
ctDatabase ==
    /\ pc = "files"
    /\ mi <= Len(meta.listing)
    /\ LET databaseName == meta.listing[mi]
       IN  IF ~IsDirName(databaseName) \/ databaseName = "system"
           THEN /\ mi' = mi + 1
                /\ UNCHANGED <<pc, ret, calls, fi>>
           ELSE \E created \in BOOLEAN, ok \in BOOLEAN :
                  \* the result of CreateDatabase is dropped
                  /\ calls' = calls \o << Call("CreateDatabase", <<databaseName>>, created),
                                          Call("ReadDir", <<databaseName>>, ok) >>
                  /\ IF ok THEN pc' = "tableFiles" /\ UNCHANGED ret
                           ELSE pc' = "done" /\ ret' = "error"
                  /\ fi' = 1
                  /\ UNCHANGED mi
    /\ UNCHANGED <<dryRun, fsOps, archVars, selVars, meta, distributedTables, upVars>>

\* Lines 257-285: the next file of the database directory.
ctTableFile ==
    /\ pc = "tableFiles"
    /\ fi <= Len(meta.contents[meta.listing[mi]])
    /\ LET databaseName == meta.listing[mi]
           table == meta.contents[databaseName][fi]
           tableCreateQuery == CreateQuery(table.dat)
       IN  IF ~table.sql
           THEN /\ fi' = fi + 1
                /\ UNCHANGED <<pc, ret, calls, distributedTables>>
           ELSE \/ /\ calls' = Append(calls, Call("ReadFile", <<databaseName, fi>>, FALSE))
                   /\ pc' = "done"
                   /\ ret' = "error"
                   /\ UNCHANGED <<fi, distributedTables>>
                \/ IF IsDistributed(tableCreateQuery)
                   THEN /\ calls' = Append(calls, Call("ReadFile", <<databaseName, fi>>, TRUE))
                        /\ distributedTables' =
                              Append(distributedTables,
                                     RestoreTable(databaseName, tableCreateQuery))
                        /\ fi' = fi + 1
                        /\ UNCHANGED <<pc, ret>>
                   ELSE \E ok \in BOOLEAN :
                          /\ calls' = calls \o
                                << Call("ReadFile", <<databaseName, fi>>, TRUE),
                                   Call("CreateTable",
                                        RestoreTable(databaseName, tableCreateQuery), ok) >>
                          /\ IF CreateTableAborts(ok)
                             THEN pc' = "done" /\ ret' = "error" /\ UNCHANGED fi
                             ELSE fi' = fi + 1 /\ UNCHANGED <<pc, ret>>
                          /\ UNCHANGED distributedTables
    /\ UNCHANGED <<dryRun, fsOps, archVars, selVars, meta, mi, upVars>>

\* The loop of line 257 ran out of files.
ctDatabaseDone ==
    /\ pc = "tableFiles"
    /\ fi > Len(meta.contents[meta.listing[mi]])
    /\ mi' = mi + 1
    /\ pc' = "files"
    /\ UNCHANGED <<ret, dryRun, calls, fsOps, archVars, selVars, meta, fi,
                   distributedTables, upVars>>

\* Line 288: the loop of line 242 ran out of entries.
ctFilesDone ==
    /\ pc = "files"
    /\ mi > Len(meta.listing)
    /\ pc' = "distributed"
    /\ fi' = 1
    /\ UNCHANGED <<ret, dryRun, calls, fsOps, archVars, selVars, meta, mi,
                   distributedTables, upVars>>

\* Lines 289-293: the next saved table.
ctDistributed ==
    /\ pc = "distributed"
    /\ fi <= Len(distributedTables)
    /\ \E ok \in BOOLEAN :
         /\ calls' = Append(calls, Call("CreateTable", distributedTables[fi], ok))
         /\ IF CreateTableAborts(ok)
            THEN pc' = "done" /\ ret' = "error" /\ UNCHANGED fi
            ELSE fi' = fi + 1 /\ UNCHANGED <<pc, ret>>
    /\ UNCHANGED <<dryRun, fsOps, archVars, selVars, meta, mi, distributedTables, upVars>>

\* Line 294.
ctReturn ==
    /\ pc = "distributed"
    /\ fi > Len(distributedTables)
    /\ pc' = "done"
    /\ ret' = "nil"
    /\ UNCHANGED <<dryRun, calls, fsOps, archVars, selVars, ctVars, upVars>>

CreateTablesNext ==
    \/ ctConnect \/ ctGetDataPath \/ ctReadMetadata \/ ctDatabase \/ ctTableFile
    \/ ctDatabaseDone \/ ctFilesDone \/ ctDistributed \/ ctReturn

SpecCreateTables == CreateTablesInit /\ [][CreateTablesNext]_vars

(***************************************************************************)
(* main.go: upload, uploadTree, uploadArchive, removeOldBackups            *)
(***************************************************************************)
Strategies == {"tree", "archive", "other"}

\* A stored object: its key and its last-modified time.
Listings ==
    UNION {{[i \in 1..k |-> [Key |-> i, LastModified |-> f[i]]] : f \in [1..k -> 1..MaxTime]}
              : k \in 0..MaxObjects}

\* Lines 569-571: the orders sort.Slice can leave the listing in; it is not
\* a stable sort, so objects of equal time come in any order.
SortedOrders(objs) ==
    {o \in [1..Len(objs) -> Range(objs)] :
        /\ \A i, j \in DOMAIN o : i # j => o[i] # o[j]
        /\ \A i, j \in DOMAIN o : i < j => o[i].LastModified <= o[j].LastModified}

\* Line 567.
BackupsToDelete(n, k) == n - k

OldestObjects_Newest(sorted, n) == SubSeq(sorted, Len(sorted) - n + 1, Len(sorted))

\* Line 573: objects[:backupsToDelete]
OldestObjects(sorted, n) == SubSeq(sorted, 1, n)

\* Line 559.
RetentionDisabled(k) == k < 1

UploadInit ==
    /\ pc = "upload"
    /\ ret = "none"
    /\ dryRun \in BOOLEAN
    /\ calls = <<>>
    /\ fsOps = <<>>
    /\ ArchIdle
    /\ SelIdle
    /\ CtIdle
    /\ strategy \in Strategies
    /\ cfgDataPath \in BOOLEAN
    /\ keep \in -1..MaxKeep
    /\ objects = <<>>
    /\ tmpFile = "none"

\* Lines 380-381.
upStart ==
    /\ pc = "upload"
    /\ pc' = IF cfgDataPath THEN "S3Connect" ELSE "Connect"
    /\ UNCHANGED <<ret, dryRun, calls, fsOps, archVars, selVars, ctVars, upVars>>

\* Lines 382-389.
upConnect ==
    /\ pc = "Connect"
    /\ \E ok \in BOOLEAN :
         /\ calls' = Append(calls, Call("Connect", <<>>, ok))
         /\ IF ok THEN pc' = "GetDataPath" /\ UNCHANGED ret
                  ELSE pc' = "done" /\ ret' = "error"
    /\ UNCHANGED <<dryRun, fsOps, archVars, selVars, ctVars, upVars>>

\* Lines 390-393.
upGetDataPath ==
    /\ pc = "GetDataPath"
    /\ \E o \in {"path", "empty", "err"} :
         /\ calls' = Append(calls, Call("GetDataPath", <<o>>, o = "path"))
         /\ IF o = "path" THEN pc' = "S3Connect" /\ UNCHANGED ret
                          ELSE pc' = "done" /\ ret' = "error"
    /\ UNCHANGED <<dryRun, fsOps, archVars, selVars, ctVars, upVars>>

\* Lines 395-419: connect to the storage, then the switch on the strategy.
upS3Connect ==
    /\ pc = "S3Connect"
    /\ \E ok \in BOOLEAN :
         /\ calls' = Append(calls, Call("S3Connect", <<>>, ok))
         /\ CASE ~ok -> pc' = "done" /\ ret' = "error"
              [] ok /\ strategy = "tree" -> pc' = "UploadMetadata" /\ UNCHANGED ret
              [] ok /\ strategy = "archive" -> pc' = "TempFile" /\ UNCHANGED ret
              [] OTHER -> pc' = "done" /\ ret' = "error"
    /\ UNCHANGED <<dryRun, fsOps, archVars, selVars, ctVars, upVars>>

\* uploadTree, lines 424-427.
upTreeMetadata ==
    /\ pc = "UploadMetadata"
    /\ \E ok \in BOOLEAN :
         /\ calls' = Append(calls, Call("UploadDirectory", <<"metadata">>, ok))
         /\ IF ok THEN pc' = "UploadShadow" /\ UNCHANGED ret
                  ELSE pc' = "done" /\ ret' = "error"
    /\ UNCHANGED <<dryRun, fsOps, archVars, selVars, ctVars, upVars>>

\* uploadTree, lines 428-432, and the return of upload.
upTreeShadow ==
    /\ pc = "UploadShadow"
    /\ \E ok \in BOOLEAN :
         /\ calls' = Append(calls, Call("UploadDirectory", <<"shadow">>, ok))
         /\ pc' = "done"
         /\ ret' = IF ok THEN "nil" ELSE "error"
    /\ UNCHANGED <<dryRun, fsOps, archVars, selVars, ctVars, upVars>>

\* uploadArchive, lines 436-440: the temporary file is created whatever the
\* dry-run flag says.
uaTempFile ==
    /\ pc = "TempFile"
    /\ \E ok \in BOOLEAN :
         IF ok
         THEN /\ tmpFile' = "exists"
              /\ fsOps' = Append(fsOps, "TempFile")
              /\ pc' = "TarDirs"
              /\ UNCHANGED ret
         ELSE /\ pc' = "done"
              /\ ret' = "error"
              /\ UNCHANGED <<tmpFile, fsOps>>
    /\ UNCHANGED <<dryRun, calls, archVars, selVars, ctVars, strategy, cfgDataPath,
                   keep, objects>>

\* uploadArchive, lines 441-444: TarDirs writes the archive into the file; when
\* it fails (or panics) the deferred os.Remove runs on the way out.
uaTarDirs ==
    /\ pc = "TarDirs"
    /\ \E r \in {"nil", "error", "panic"} :
         IF r = "nil"
         THEN /\ fsOps' = Append(fsOps, "Write")
              /\ pc' = "UploadFile"
              /\ UNCHANGED <<ret, tmpFile>>
         ELSE /\ fsOps' = fsOps \o <<"Write", "Remove">>
              /\ tmpFile' = "removed"
              /\ pc' = "done"
              /\ ret' = r
    /\ UNCHANGED <<dryRun, calls, archVars, selVars, ctVars, strategy, cfgDataPath,
                   keep, objects>>

uaUploadFile_ThenRetention ==
    /\ pc = "UploadFile"
    /\ \E ok \in BOOLEAN :
         calls' = Append(calls, Call("UploadFile", <<>>, ok))
    /\ pc' = "removeOldBackups"
    /\ fsOps' = Append(fsOps, "Remove")
    /\ tmpFile' = "removed"
    /\ UNCHANGED <<ret, dryRun, archVars, selVars, ctVars, strategy, cfgDataPath, keep,
                   objects>>

uaUploadFile_KeepOnFailure ==
    /\ pc = "UploadFile"
    /\ \E ok \in BOOLEAN :
         /\ calls' = Append(calls, Call("UploadFile", <<>>, ok))
         /\ IF ok THEN /\ pc' = "removeOldBackups"
                       /\ fsOps' = Append(fsOps, "Remove")
                       /\ tmpFile' = "removed"
                       /\ UNCHANGED ret
                  ELSE /\ pc' = "done"
                       /\ ret' = "error"
                       /\ UNCHANGED <<fsOps, tmpFile>>
    /\ UNCHANGED <<dryRun, archVars, selVars, ctVars, strategy, cfgDataPath, keep,
                   objects>>

\* uploadArchive, lines 445-449, with the deferred os.Remove of line 440.
uaUploadFile ==
    /\ pc = "UploadFile"
    /\ \E ok \in BOOLEAN :
         /\ calls' = Append(calls, Call("UploadFile", <<>>, ok))
         /\ IF ok THEN pc' = "removeOldBackups" /\ UNCHANGED ret
                  ELSE pc' = "done" /\ ret' = "error"
    /\ fsOps' = Append(fsOps, "Remove")
    /\ tmpFile' = "removed"
    /\ UNCHANGED <<dryRun, archVars, selVars, ctVars, strategy, cfgDataPath, keep,
                   objects>>

\* removeOldBackups, lines 559-566.
rbListObjects ==
    /\ pc = "removeOldBackups"
    /\ IF RetentionDisabled(keep)
       THEN /\ pc' = "done"
            /\ ret' = "nil"
            /\ UNCHANGED <<calls, objects>>
       ELSE \/ /\ calls' = Append(calls, Call("ListObjects", <<>>, FALSE))
               /\ pc' = "done"
               /\ ret' = "error"
               /\ UNCHANGED objects
            \/ \E l \in Listings :
                 /\ calls' = Append(calls, Call("ListObjects", <<>>, TRUE))
                 /\ objects' = l
                 /\ pc' = "prune"
                 /\ UNCHANGED ret
    /\ UNCHANGED <<dryRun, fsOps, archVars, selVars, ctVars, strategy, cfgDataPath,
                   keep, tmpFile>>

\* removeOldBackups, lines 567-577, and the return of upload.
rbPrune ==
    /\ pc = "prune"
    /\ LET backupsToDelete == BackupsToDelete(Len(objects), keep)
       IN  IF backupsToDelete > 0
           THEN \E sorted \in SortedOrders(objects), ok \in BOOLEAN :
                  /\ calls' = Append(calls, Call("DeleteObjects",
                                       OldestObjects(sorted, backupsToDelete), ok))
                  /\ ret' = IF ok THEN "nil" ELSE "error"
           ELSE /\ ret' = "nil"
                /\ UNCHANGED calls
    /\ pc' = "done"
    /\ UNCHANGED <<dryRun, fsOps, archVars, selVars, ctVars, upVars>>

UploadNext ==
    \/ upStart \/ upConnect \/ upGetDataPath \/ upS3Connect
    \/ upTreeMetadata \/ upTreeShadow
    \/ uaTempFile \/ uaTarDirs \/ uaUploadFile
    \/ rbListObjects \/ rbPrune

SpecUpload == UploadInit /\ [][UploadNext]_vars

(***************************************************************************)
(* main.go: download, downloadTree, downloadArchive                        *)
(***************************************************************************)
\* The positional arguments of download: object names, possibly empty.
DownloadArgs == SeqsUpTo({"backup.tar", ""}, MaxArgs)

parseArgsForDownload_First(as) == IF Len(as) >= 1 THEN as[1] ELSE ""

\* Lines 187-192.
parseArgsForDownload(as) == IF Len(as) = 1 THEN as[1] ELSE ""

DownloadInit ==
    /\ pc = "download"
    /\ ret = "none"
    /\ dryRun \in BOOLEAN
    /\ calls = <<>>
    /\ fsOps = <<>>
    /\ ArchIdle
    /\ CtIdle
    /\ args \in DownloadArgs
    /\ increments = <<>>
    /\ shadow = "none"
    /\ allTables = <<>>
    /\ result = <<>>
    /\ ti = 0
    /\ ai = 0
    /\ strategy \in Strategies
    /\ cfgDataPath \in BOOLEAN
    /\ keep = 0
    /\ objects = <<>>
    /\ tmpFile = "none"

\* Lines 453-454.
dlStart ==
    /\ pc = "download"
    /\ pc' = IF cfgDataPath THEN "S3Connect" ELSE "Connect"
    /\ UNCHANGED <<ret, dryRun, calls, fsOps, archVars, selVars, ctVars, upVars>>

\* Lines 455-462.
dlConnect ==
    /\ pc = "Connect"
    /\ \E ok \in BOOLEAN :
         /\ calls' = Append(calls, Call("Connect", <<>>, ok))
         /\ IF ok THEN pc' = "GetDataPath" /\ UNCHANGED ret
                  ELSE pc' = "done" /\ ret' = "error"
    /\ UNCHANGED <<dryRun, fsOps, archVars, selVars, ctVars, upVars>>

\* Lines 463-466.
dlGetDataPath ==
    /\ pc = "GetDataPath"
    /\ \E o \in {"path", "empty", "err"} :
         /\ calls' = Append(calls, Call("GetDataPath", <<o>>, o = "path"))
         /\ IF o = "path" THEN pc' = "S3Connect" /\ UNCHANGED ret
                          ELSE pc' = "done" /\ ret' = "error"
    /\ UNCHANGED <<dryRun, fsOps, archVars, selVars, ctVars, upVars>>

\* Lines 468-493: connect to the storage, then the switch on the strategy;
\* the archive strategy wants an object name.
dlS3Connect ==
    /\ pc = "S3Connect"
    /\ \E ok \in BOOLEAN :
         /\ calls' = Append(calls, Call("S3Connect", <<>>, ok))
         /\ CASE ~ok -> pc' = "done" /\ ret' = "error"
              [] ok /\ strategy = "tree" -> pc' = "TreeMetadata" /\ UNCHANGED ret
              [] ok /\ strategy = "archive" ->
                   IF parseArgsForDownload(args) = ""
                   THEN pc' = "done" /\ ret' = "error"
                   ELSE pc' = "ArchiveMetadata" /\ UNCHANGED ret
              [] OTHER -> pc' = "done" /\ ret' = "error"
    /\ UNCHANGED <<dryRun, fsOps, archVars, selVars, ctVars, upVars>>

\* downloadTree, lines 498-500.
dtMetadata ==
    /\ pc = "TreeMetadata"
    /\ \E ok \in BOOLEAN :
         /\ calls' = Append(calls, Call("DownloadTree", <<"metadata">>, ok))
         /\ IF ok THEN pc' = "TreeShadow" /\ UNCHANGED ret
                  ELSE pc' = "done" /\ ret' = "error"
    /\ UNCHANGED <<dryRun, fsOps, archVars, selVars, ctVars, upVars>>

\* downloadTree, lines 501-504, and the return of download.
dtShadow ==
    /\ pc = "TreeShadow"
    /\ \E ok \in BOOLEAN :
         /\ calls' = Append(calls, Call("DownloadTree", <<"shadow">>, ok))
         /\ pc' = "done"
         /\ ret' = IF ok THEN "nil" ELSE "error"
    /\ UNCHANGED <<dryRun, fsOps, archVars, selVars, ctVars, upVars>>

\* downloadArchive, lines 508-510.
daMetadata ==
    /\ pc = "ArchiveMetadata"
    /\ \E ok \in BOOLEAN :
         /\ calls' = Append(calls, Call("DownloadTree", <<"metadata">>, ok))
         /\ IF ok THEN pc' = "DownloadArchive" /\ UNCHANGED ret
                  ELSE pc' = "done" /\ ret' = "error"
    /\ UNCHANGED <<dryRun, fsOps, archVars, selVars, ctVars, upVars>>

\* downloadArchive, lines 511-515.
daDownloadArchive ==
    /\ pc = "DownloadArchive"
    /\ \E ok \in BOOLEAN :
         /\ calls' = Append(calls, Call("DownloadArchive",
                                        <<parseArgsForDownload(args)>>, ok))
         /\ IF ok THEN pc' = "Open" /\ UNCHANGED ret
                  ELSE pc' = "done" /\ ret' = "error"
    /\ UNCHANGED <<dryRun, fsOps, archVars, selVars, ctVars, upVars>>

\* downloadArchive, lines 516-526: open the local copy and untar it; the
\* deferred os.Remove of the copy runs on every way out, whatever the
\* dry-run flag says.
daUntar ==
    /\ pc = "Open"
    /\ \E o \in {"openErr", "untarErr", "ok"} :
         /\ fsOps' = IF o = "openErr" THEN Append(fsOps, "Remove")
                                      ELSE fsOps \o <<"Untar", "Remove">>
         /\ ret' = IF o = "ok" THEN "nil" ELSE "error"
    /\ pc' = "done"
    /\ UNCHANGED <<dryRun, calls, archVars, selVars, ctVars, upVars>>

DownloadNext ==
    \/ dlStart \/ dlConnect \/ dlGetDataPath \/ dlS3Connect
    \/ dtMetadata \/ dtShadow
    \/ daMetadata \/ daDownloadArchive \/ daUntar

SpecDownload == DownloadInit /\ [][DownloadNext]_vars

(***************************************************************************)
(* main.go: clean                                                          *)
(***************************************************************************)
\* What os.Stat(shadowDir) can report: a missing directory is reported as
\* such; for anything else the call succeeds or fails otherwise.
StatResults(kind) == IF kind = "missing" THEN {"notExist"} ELSE {"exists", "statErr"}

\* cleanDir(shadowDir): what it can leave of the listing and what it returns.
\* It removes the entries one after the other; it fails without removing
\* anything when the path cannot be listed.
CleanDirOutcomes(st, statResult) ==
    IF st.kind # "dir" \/ statResult = "statErr"
    THEN {[walk |-> st.walk, ok |-> FALSE]}
    ELSE {[walk |-> <<>>, ok |-> TRUE]}
           \cup {[walk |-> SubSeq(st.walk, k, Len(st.walk)), ok |-> FALSE]
                    : k \in 1..Len(st.walk)}

SkipCleanDir_Never(flag) == FALSE

\* Line 550: if !dryRun
SkipCleanDir(flag) == flag

CleanInit ==
    /\ pc = "clean"
    /\ ret = "none"
    /\ dryRun \in BOOLEAN
    /\ calls = <<>>
    /\ fsOps = <<>>
    /\ dirs = <<>>
    /\ fs \in [{"shadow"} -> RootStates]
    /\ ri = 0
    /\ wi = 0
    /\ seen = EmptyMap
    /\ tw = <<>>
    /\ SelIdle
    /\ CtIdle
    /\ strategy = "none"
    /\ cfgDataPath \in BOOLEAN
    /\ keep = 0
    /\ objects = <<>>
    /\ tmpFile = "none"

\* Lines 529-530.
clStart ==
    /\ pc = "clean"
    /\ pc' = IF cfgDataPath THEN "Stat" ELSE "Connect"
    /\ UNCHANGED <<ret, dryRun, calls, fsOps, archVars, selVars, ctVars, upVars>>

\* Lines 531-538.
clConnect ==
    /\ pc = "Connect"
    /\ \E ok \in BOOLEAN :
         /\ calls' = Append(calls, Call("Connect", <<>>, ok))
         /\ IF ok THEN pc' = "GetDataPath" /\ UNCHANGED ret
                  ELSE pc' = "done" /\ ret' = "error"
    /\ UNCHANGED <<dryRun, fsOps, archVars, selVars, ctVars, upVars>>

\* Lines 539-542.
clGetDataPath ==
    /\ pc = "GetDataPath"
    /\ \E o \in {"path", "empty", "err"} :
         /\ calls' = Append(calls, Call("GetDataPath", <<o>>, o = "path"))
         /\ IF o = "path" THEN pc' = "Stat" /\ UNCHANGED ret
                          ELSE pc' = "done" /\ ret' = "error"
    /\ UNCHANGED <<dryRun, fsOps, archVars, selVars, ctVars, upVars>>

\* Lines 544-549: only a result that says "does not exist" ends the run here.
clStat ==
    /\ pc = "Stat"
    /\ \E r \in StatResults(fs["shadow"].kind) :
         /\ shadow' = r
         /\ IF r = "notExist"
            THEN pc' = "done" /\ ret' = "nil"
            ELSE pc' = "cleanDir" /\ UNCHANGED ret
    /\ UNCHANGED <<dryRun, calls, fsOps, archVars, args, increments, allTables,
                   result, ti, ai, ctVars, upVars>>

\* Lines 550-555.
clCleanDir ==
    /\ pc = "cleanDir"
    /\ IF SkipCleanDir(dryRun)
       THEN /\ ret' = "nil"
            /\ UNCHANGED <<fsOps, fs>>
       ELSE \E o \in CleanDirOutcomes(fs["shadow"], shadow) :
              /\ fsOps' = Append(fsOps, "cleanDir")
              /\ fs' = [fs EXCEPT !["shadow"].walk = o.walk]
              /\ ret' = IF o.ok THEN "nil" ELSE "error"
    /\ pc' = "done"
    /\ UNCHANGED <<dryRun, calls, dirs, ri, wi, seen, tw, selVars, ctVars, upVars>>

CleanNext == clStart \/ clConnect \/ clGetDataPath \/ clStat \/ clCleanDir

SpecClean == CleanInit /\ [][CleanNext]_vars

(***************************************************************************)
(* Properties                                                              *)
(***************************************************************************)
\* The identity of the file an archive entry was written for.
IdentityOf(name) == fs[name[1]].walk[name[2]].di

\* C1: in one archive every file identity has exactly one content entry,
\* written for the first file visited with it; every later file with that
\* identity, in the same root or in a later one, is a link entry.
C1_OneContentEntryPerIdentity ==
    \A j \in DOMAIN tw :
        LET earlier == {i \in 1..(j - 1) :
                           IdentityOf(tw[i].Name) = IdentityOf(tw[j].Name)}
        IN  IF earlier = {} THEN tw[j].Typeflag = "reg" ELSE tw[j].Typeflag = "link"

\* C2: once a tree is archived, each identity shared by k of its files has
\* exactly 1 content entry and k-1 link entries, every link entry has size 0
\* and names the content entry as its target, and the tree has as many
\* entries as non-directory files.
C2_TreeEntries ==
    \A r \in DOMAIN dirs :
        r < ri =>
            LET dir == dirs[r]
                walk == fs[dir].walk
                files == {k \in DOMAIN walk : ~walk[k].isDir}
                entries == {i \in DOMAIN tw : tw[i].Name[1] = dir}
            IN  /\ Cardinality(entries) = Cardinality(files)
                /\ \A d \in {walk[k].di : k \in files} :
                     LET same == {i \in entries : IdentityOf(tw[i].Name) = d}
                         content == {i \in same : tw[i].Typeflag = "reg"}
                         links == same \ content
                     IN  /\ Cardinality(content) = 1
                         /\ Cardinality(links)
                               = Cardinality({k \in files : walk[k].di = d}) - 1
                         /\ \A l \in links :
                              /\ tw[l].Typeflag = "link"
                              /\ tw[l].Size = 0
                              /\ \A c \in content : tw[l].Linkname = tw[c].Name

\* A tree with two files of one identity has been archived in full.
C2_Witness ==
    /\ ri > 1
    /\ \E i \in DOMAIN tw : tw[i].Typeflag = "link" /\ tw[i].Name[1] = dirs[1]

\* C3: no CreateTable call for a non-distributed definition follows a
\* CreateTable call for a distributed one.
C3_DistributedLast ==
    \A i, j \in CallsOf("CreateTable") :
        i < j /\ calls[i].arg.Query.engine = "Distributed"
            => calls[j].arg.Query.engine = "Distributed"

\* A distributed definition of the first database was created after a plain
\* definition of the second one.
C3_Witness ==
    /\ Len(meta.listing) = 2
    /\ \E i, j \in CallsOf("CreateTable") :
         /\ i < j
         /\ calls[i].arg.Query.engine = "MergeTree"
         /\ calls[i].arg.Database = meta.listing[2]
         /\ calls[j].arg.Query.engine = "Distributed"
         /\ calls[j].arg.Database = meta.listing[1]

\* C4: FreezeTable is called only when the shadow directory is empty or does
\* not exist; when its listing fails otherwise or returns entries, freeze
\* returns an error and has called FreezeTable on no table.
C4_ShadowGuard ==
    /\ CallsOf("FreezeTable") # {} => shadow \in {"empty", "notExist"}
    /\ pc = "done" /\ shadow \in {"nonEmpty", "readErr"}
          => ret = "error" /\ CallsOf("FreezeTable") = {}

\* freeze listed a shadow directory that holds files, and returned.
C4_Witness ==
    /\ pc = "done"
    /\ shadow = "nonEmpty"
    /\ \E i \in CallsOf("GetDataPath") : calls[i].ok
    /\ ret = "error"

\* C5: a failed CopyData or AttachPartitions is the last call of the run and
\* the run returns an error; AttachPartitions for a table directly follows a
\* successful CopyData for that table.
C5_RestoreFailFast ==
    /\ \A i \in CallsOf("CopyData") \cup CallsOf("AttachPartitions") :
         ~calls[i].ok => i = Len(calls) /\ pc = "done" /\ ret = "error"
    /\ \A i \in CallsOf("AttachPartitions") :
         /\ i > 1
         /\ calls[i - 1].fn = "CopyData"
         /\ calls[i - 1].ok
         /\ calls[i - 1].arg = calls[i].arg

\* A step failed for a table that is not the last one selected.
C5_Witness ==
    /\ pc = "done"
    /\ ret = "error"
    /\ ti < Len(result)
    /\ \E i \in CallsOf("AttachPartitions") : ~calls[i].ok

\* Every connection, directory listing and file read of the run succeeded.
AllReadable ==
    \A i \in DOMAIN calls :
        calls[i].fn \in {"Connect", "GetDataPath", "ReadDir", "ReadFile"} => calls[i].ok

\* The table definition files of the non-system databases: <<database, position>>.
DefinitionFiles ==
    UNION {{<<db, k>> : k \in {n \in DOMAIN meta.contents[db] : meta.contents[db][n].sql}}
              : db \in {n \in Range(meta.listing) : IsDirName(n) /\ n # "system"}}

\* C6: when the run reaches the metadata tree and every directory and file
\* of it is readable, createTables returns success and has called CreateTable
\* exactly once for every definition file of every non-system database,
\* whichever of these calls failed.
C6_BestEffort ==
    pc = "done" /\ AllReadable =>
        /\ ret = "nil"
        /\ \A d \in DefinitionFiles :
             Cardinality({i \in CallsOf("CreateTable") :
                            calls[i].arg = RestoreTable(d[1],
                                              CreateQuery(meta.contents[d[1]][d[2]].dat))})
                = 1

\* The run went on after a failed CreateTable and returned.
C6_Witness ==
    /\ pc = "done"
    /\ AllReadable
    /\ \E i, j \in CallsOf("CreateTable") : i < j /\ ~calls[i].ok

\* The place of a table in the catalog.
CatalogIndex(t) == CHOOSE k \in DOMAIN allTables : allTables[k] = t

\* C7: the selection of freeze follows catalog order, whatever the order of
\* the patterns.
C7_CatalogOrder ==
    \A i, j \in DOMAIN result :
        i < j => CatalogIndex(result[i]) <= CatalogIndex(result[j])

\* C8: nothing is deleted when keep < 1 or the listing has at most keep
\* objects; otherwise one DeleteObjects call takes exactly Len - keep objects,
\* none of them newer than a retained one, and keep objects remain.
C8_Prune ==
    LET dels == CallsOf("DeleteObjects")
        L == Len(objects)
    IN  /\ keep < 1 => dels = {}
        /\ L <= keep => dels = {}
        /\ pc = "done" /\ (\E i \in CallsOf("ListObjects") : calls[i].ok) /\ L > keep =>
             /\ Cardinality(dels) = 1
             /\ \A i \in dels :
                  LET deleted == Range(calls[i].arg)
                      retained == Range(objects) \ deleted
                  IN  /\ Len(calls[i].arg) = L - keep
                      /\ Cardinality(deleted) = L - keep
                      /\ deleted \subseteq Range(objects)
                      /\ Cardinality(retained) = keep
                      /\ \A d \in deleted, r \in retained :
                           d.LastModified <= r.LastModified

\* Two objects were deleted and an object as old as a deleted one was kept.
C8_Witness ==
    /\ pc = "done"
    /\ \E i \in CallsOf("DeleteObjects") :
         /\ Len(calls[i].arg) = 2
         /\ \E d \in Range(calls[i].arg), r \in Range(objects) \ Range(calls[i].arg) :
              d.LastModified = r.LastModified

\* C9: with the dry-run flag set the operation's own code makes no local
\* filesystem write, create or delete.
C9_DryRunNoLocalMutation == dryRun => fsOps = <<>>

\* The patterns parseArgsForRestore works with.
RestorePatterns == IF args = <<>> THEN {<<"*">>} ELSE Range(args)

\* C10: the selection of restore holds exactly the catalog entries whose name
\* matches a pattern and whose increment is asked for (any, when none is).
C10_RestoreSelection ==
    pc \in {"CopyData", "AttachPartitions", "done"} =>
        Range(result) =
            {t \in allTables :
                /\ \E p \in RestorePatterns : Match(p, TableName(t))
                /\ increments = <<>> \/ t.Increment \in Range(increments)}

\* Increments were asked for, and they kept one entry and dropped another.
C10_Witness ==
    /\ pc = "CopyData"
    /\ increments # <<>>
    /\ result # <<>>
    /\ \E t \in allTables :
         /\ t \notin Range(result)
         /\ \E p \in RestorePatterns : Match(p, TableName(t))

\* The FreezeTable calls of the run, in order.
FreezeCalls == SelectSeq(calls, LAMBDA c : c.fn = "FreezeTable")

\* C11: FreezeTable is called on the selected tables in selection order; a
\* failed FreezeTable is the last one and freeze returns an error; a run that
\* returns success froze the whole selection; with an empty selection freeze
\* returns success and calls FreezeTable on nothing.
C11_FreezeInOrderFailFast ==
    /\ Len(FreezeCalls) <= Len(result)
    /\ \A k \in DOMAIN FreezeCalls :
         /\ FreezeCalls[k].arg = result[k]
         /\ ~FreezeCalls[k].ok =>
              k = Len(FreezeCalls) /\ pc = "done" /\ ret = "error"
    /\ pc = "done" /\ ret = "nil" => Len(FreezeCalls) = Len(result)
    /\ pc = "done" /\ (\E i \in CallsOf("GetTables") : calls[i].ok) /\ result = <<>>
          => ret = "nil" /\ FreezeCalls = <<>>

\* The second of at least three selected tables failed to freeze.
C11_Witness ==
    /\ pc = "done"
    /\ ret = "error"
    /\ Len(result) >= 3
    /\ Len(FreezeCalls) = 2
    /\ ~FreezeCalls[2].ok


\* C12: when a step on a file fails, the archive stops there and returns the
\* error: a content entry whose body was not written in full is the last
\* entry, and the return value is an error.
C12_ArchiveErrorsSurface ==
    \A i \in DOMAIN tw :
        tw[i].Typeflag = "reg" /\ tw[i].body # "full"
            => i = Len(tw) /\ pc = "done" /\ ret = "error"

\* The roots of the list that are missing or no directory.
BadRoots == {r \in DOMAIN dirs : fs[dirs[r]].kind # "dir"}

\* The place of a root in the list.
RootIndex(dir) == CHOOSE r \in DOMAIN dirs : dirs[r] = dir

\* C13: when a root of the list is missing or no directory, the archive
\* returns an error value, and no entry is written for that root or a later one.
C13_BadRootIsAnError ==
    pc = "done" /\ BadRoots # {} =>
        /\ ret = "error"
        /\ \A i \in DOMAIN tw : \A b \in BadRoots : RootIndex(tw[i].Name[1]) < b


\* C14: with the archive strategy and an argument list that does not have
\* exactly one element, download returns an error and has made no storage
\* download call, no extraction and no local file deletion.
C14_ArchiveNameRequired ==
    strategy = "archive" /\ Len(args) # 1 =>
        /\ CallsOf("DownloadTree") = {}
        /\ CallsOf("DownloadArchive") = {}
        /\ fsOps = <<>>
        /\ pc = "done" => ret = "error"

\* download reached the switch with two arguments and returned.
C14_Witness ==
    /\ pc = "done"
    /\ strategy = "archive"
    /\ Len(args) = 2
    /\ \E i \in CallsOf("S3Connect") : calls[i].ok


\* How many times a table stands in the selection.
TimesSelected(t) == Cardinality({i \in DOMAIN result : result[i] = t})

\* C15: once freeze has selected, the selection is the catalog itself when
\* there is no pattern; otherwise every table stands in it as many times as
\* pattern occurrences match it when it is in the catalog, and not at all
\* when it is not.
C15_FreezeSelection ==
    (\E i \in CallsOf("GetTables") : calls[i].ok) =>
        IF args = <<>>
        THEN result = allTables
        ELSE \A t \in Tables :
                TimesSelected(t) =
                    IF t \in Range(allTables)
                    THEN Cardinality({k \in DOMAIN args : Match(args[k], TableName(t))})
                    ELSE 0

\* One table is selected twice and another table of the catalog not at all.
C15_Witness ==
    /\ \E i \in CallsOf("GetTables") : calls[i].ok
    /\ \E t, u \in Range(allTables) : TimesSelected(t) = 2 /\ TimesSelected(u) = 0


\* C16: a step of clean changes the shadow directory, or calls cleanDir, only
\* when the directory exists and dry-run is off; when the directory does not
\* exist clean returns success and has changed nothing.
C16_CleanGuard ==
    [][ /\ fs' # fs \/ fsOps' # fsOps =>
             /\ ~dryRun
             /\ fs["shadow"].kind # "missing"
             /\ shadow = "exists" \/ shadow = "statErr"
        /\ pc' = "done" /\ fs["shadow"].kind = "missing" /\ shadow' # "none" =>
             ret' = "nil" /\ fs' = fs /\ fsOps' = <<>>
      ]_vars

\* clean emptied a shadow directory that held entries.
C16_Witness ==
    /\ pc = "done"
    /\ ret = "nil"
    /\ shadow = "exists"
    /\ fsOps = <<"cleanDir">>
    /\ fs["shadow"].walk = <<>>


\* C17: when create-tables has returned and a call to the database client
\* other than CreateTable had failed, the operation returned an error.
C17_NoSilentFailure ==
    pc = "done" /\ (\E i \in DOMAIN calls : calls[i].fn # "CreateTable"
                                           /\ calls[i].fn # "ReadDir"
                                           /\ ~calls[i].ok)
        => ret = "error"


RetentionCalls == CallsOf("ListObjects") \cup CallsOf("DeleteObjects")

C20_RestoreSelectsOnce ==
    /\ \A i, j \in DOMAIN result : i # j => result[i] # result[j]
    /\ \A i, j \in CallsOf("CopyData") : i # j => calls[i].arg # calls[j].arg
    /\ \A i, j \in CallsOf("AttachPartitions") : i # j => calls[i].arg # calls[j].arg

====
